---- MODULE Spec2Model ----
(***************************************************************************)
(* Model of kube_trim/server.py: the sampling loop (collect_metrics), the  *)
(* node and pod parsers, the resource lookups and the two read handlers    *)
(* (get_metrics, get_report).                                              *)
(*                                                                         *)
(* Text is modelled at the granularity the code works at.  A quantity      *)
(* token (the CPU or memory column, the output of the requested-memory     *)
(* query) is a sequence of one-character strings, so that str.replace,     *)
(* the `in` substring test and int() are computed as Python computes them. *)
(* A line of kubectl output is its whitespace-delimited fields plus a flag *)
(* telling whether whitespace follows the last field (kubectl pads its     *)
(* columns); re.split(r'\s+', line) then yields a final empty part.        *)
(***************************************************************************)
EXTENDS Integers, Sequences, FiniteSets, TLC

\* ------------------------------------------------------------------------
\* Python string primitives on tokens (sequences of characters)
\* ------------------------------------------------------------------------

Digits == {"0", "1", "2", "3", "4", "5", "6", "7", "8", "9"}

DigitVal(c) ==
    CASE c = "0" -> 0 [] c = "1" -> 1 [] c = "2" -> 2 [] c = "3" -> 3
      [] c = "4" -> 4 [] c = "5" -> 5 [] c = "6" -> 6 [] c = "7" -> 7
      [] c = "8" -> 8 [] c = "9" -> 9

\* pat occurs in s at position i
MatchAt(s, pat, i) ==
    /\ i + Len(pat) - 1 <= Len(s)
    /\ \A k \in 1..Len(pat) : s[i + k - 1] = pat[k]

\* Python: pat in s
Contains(s, pat) == \E i \in 1..Len(s) : MatchAt(s, pat, i)

RECURSIVE ReplaceFrom(_, _, _)
ReplaceFrom(s, pat, i) ==
    IF i > Len(s) THEN <<>>
    ELSE IF MatchAt(s, pat, i) THEN ReplaceFrom(s, pat, i + Len(pat))
    ELSE <<s[i]>> \o ReplaceFrom(s, pat, i + 1)

\* Python: s.replace(pat, ""), leftmost non-overlapping occurrences removed
Replace(s, pat) == ReplaceFrom(s, pat, 1)

RECURSIVE DecimalValue(_)
DecimalValue(ds) ==
    IF ds = <<>> THEN 0
    ELSE 10 * DecimalValue(SubSeq(ds, 1, Len(ds) - 1)) + DigitVal(ds[Len(ds)])

Raised == [ok |-> FALSE, val |-> 0]

Returned(v) == [ok |-> TRUE, val |-> v]

\* Python: int(s) for a token of ASCII characters without whitespace: an
\* optional sign, then digits, where single underscores may stand between two
\* digits; anything else raises ValueError.
PyInt(s) ==
    LET signed == s # <<>> /\ s[1] \in {"-", "+"}
        body   == IF signed THEN Tail(s) ELSE s
        valid  ==
            /\ body # <<>>
            /\ \A i \in 1..Len(body) :
                  \/ body[i] \in Digits
                  \/ /\ body[i] = "_"
                     /\ i > 1 /\ i < Len(body)
                     /\ body[i - 1] \in Digits /\ body[i + 1] \in Digits
    IN  IF valid
        THEN LET magnitude == DecimalValue(SelectSeq(body, LAMBDA c : c \in Digits))
             IN  Returned(IF s[1] = "-" THEN 0 - magnitude ELSE magnitude)
        ELSE Raised

\* Python floor division by a positive divisor
FloorDiv(a, b) == a \div b

\* ------------------------------------------------------------------------
\* Unit normalisation (server.py lines 132-133, 160-161, 171-183)
\* ------------------------------------------------------------------------

\* The result of evaluating e1 * k once e1 has evaluated
Scale(r, k) == IF r.ok THEN Returned(r.val * k) ELSE Raised

\* int(cpu.replace("m", "").replace("%", "")) if "m" in cpu
\*                                            else int(cpu.replace("%", ""))
ParseCpu(cpu) ==
    IF Contains(cpu, <<"m">>)
    THEN PyInt(Replace(Replace(cpu, <<"m">>), <<"%">>))
    ELSE PyInt(Replace(cpu, <<"%">>))

\* node path: kibibytes
ParseNodeMemory(memory) ==
    IF Contains(memory, <<"M", "i">>)
    THEN Scale(PyInt(Replace(memory, <<"M", "i">>)), 1024)
    ELSE IF Contains(memory, <<"G", "i">>)
    THEN Scale(PyInt(Replace(memory, <<"G", "i">>)), 1024 * 1024)
    ELSE IF Contains(memory, <<"K", "i">>)
    THEN PyInt(Replace(memory, <<"K", "i">>))
    ELSE PyInt(Replace(memory, <<"%">>))

\* the pod path normalising as the node path does, to kibibytes
ParsePodMemoryAsNode(memory) == ParseNodeMemory(memory)

\* pod path: mebibytes
ParsePodMemory(memory) ==
    IF Contains(memory, <<"M", "i">>)
    THEN PyInt(Replace(memory, <<"M", "i">>))
    ELSE IF Contains(memory, <<"G", "i">>)
    THEN Scale(PyInt(Replace(memory, <<"G", "i">>)), 1024)
    ELSE IF Contains(memory, <<"K", "i">>)
    THEN LET r == PyInt(Replace(memory, <<"K", "i">>))
         IN  IF r.ok THEN Returned(FloorDiv(r.val, 1024)) ELSE Raised
    ELSE PyInt(Replace(memory, <<"%">>))

\* ------------------------------------------------------------------------
\* Text of the external commands
\* ------------------------------------------------------------------------

\* The empty string, as a part produced by re.split and as a command output
EmptyToken == <<>>

EmptyText == <<>>

\* output.strip(): whitespace after the last field of the last line is removed
Strip(output) ==
    [i \in 1..Len(output) |->
        IF i = Len(output) THEN [output[i] EXCEPT !.trail = FALSE] ELSE output[i]]

\* output.strip().split("\n")
Lines(output) == Strip(output)

\* re.split(r'\s+', line): the fields, and an empty part after trailing whitespace
Parts(line) == IF line.trail THEN line.fields \o <<EmptyToken>> ELSE line.fields

\* ------------------------------------------------------------------------
\* Outcomes of subprocess.run(..., check=True)
\* ------------------------------------------------------------------------

\* the command ran and exited 0: its stdout
Stdout(text) == [kind |-> "stdout", text |-> text]

\* the command exited non-zero
CalledProcessError == [kind |-> "CalledProcessError", text |-> EmptyText]

\* the command could not be run at all (FileNotFoundError, PermissionError or
\* another OSError raised by Popen): not a subclass of CalledProcessError
OSError == [kind |-> "OSError", text |-> EmptyText]

\* what a function call produced: a value, or an exception left to its caller
Value(v) == [raised |-> FALSE, value |-> v]

Exception == [raised |-> TRUE, value |-> EmptyText]

\* collect_node_metrics(): only CalledProcessError is caught
collect_node_metrics(outcome) ==
    IF outcome.kind = "stdout" THEN Value(outcome.text)
    ELSE IF outcome.kind = "CalledProcessError" THEN Value(EmptyText)
    ELSE Exception

\* collect_pod_metrics(): only CalledProcessError is caught
collect_pod_metrics(outcome) ==
    IF outcome.kind = "stdout" THEN Value(outcome.text)
    ELSE IF outcome.kind = "CalledProcessError" THEN Value(EmptyText)
    ELSE Exception

\* the image string "unknown"; an image string is the sequence of the
\* whitespace-separated names it holds (stdout.strip() keeps inner whitespace)
Unknown == <<"unknown">>

\* lookup_pod_image(namespace, pod): only CalledProcessError is caught
lookup_pod_image(outcome) ==
    IF outcome.kind = "stdout" THEN Value(outcome.text)
    ELSE IF outcome.kind = "CalledProcessError" THEN Value(Unknown)
    ELSE Exception

\* lookup_allocated_memory(namespace, pod): the stdout is the sequence of its
\* whitespace-separated tokens; the ValueError of int() is not caught
lookup_allocated_memory(outcome) ==
    IF outcome.kind = "CalledProcessError" THEN Returned(0)
    ELSE IF outcome.kind # "stdout" THEN Raised
    ELSE IF outcome.text = EmptyText THEN Returned(0)
    ELSE LET allocated_memory == outcome.text[1]
         IN  IF Contains(allocated_memory, <<"M", "i">>)
             THEN PyInt(Replace(allocated_memory, <<"M", "i">>))
             ELSE IF Contains(allocated_memory, <<"G", "i">>)
             THEN Scale(PyInt(Replace(allocated_memory, <<"G", "i">>)), 1024)
             ELSE IF Contains(allocated_memory, <<"K", "i">>)
             THEN LET r == PyInt(Replace(allocated_memory, <<"K", "i">>))
                  IN  IF r.ok THEN Returned(FloorDiv(r.val, 1024)) ELSE Raised
             ELSE PyInt(allocated_memory)

\* ------------------------------------------------------------------------
\* Parsing
\* ------------------------------------------------------------------------

NodeRow(timestamp, node, cpu, memory) ==
    [timestamp |-> timestamp, node |-> node, cpu |-> cpu, memory |-> memory]

PodRow(timestamp, pod, namespace, cpu, memory, image) ==
    [timestamp |-> timestamp, pod |-> pod, namespace |-> namespace,
     cpu |-> cpu, memory |-> memory, image |-> image]

\* the body of the for loop of parse_node_metrics for one line: the rows it
\* adds to parsed_data, or the ValueError of int()
ParseNodeLine(line, timestamp) ==
    LET parts == Parts(line)
    IN  IF Len(parts) >= 3
        THEN LET cpu    == ParseCpu(parts[2])
                 memory == ParseNodeMemory(parts[3])
             IN  IF cpu.ok /\ memory.ok
                 THEN Value(<<NodeRow(timestamp, parts[1], cpu.val, memory.val)>>)
                 ELSE Exception
        ELSE Value(<<>>)

\* the for loop of parse_node_metrics over lines[1:]: parsed_data, or the
\* first exception, which ends the loop
RECURSIVE ParseNodeLines(_, _)
ParseNodeLines(lines, timestamp) ==
    IF lines = <<>> THEN Value(<<>>)
    ELSE LET first == ParseNodeLine(Head(lines), timestamp)
         IN  IF first.raised THEN Exception
             ELSE LET rest == ParseNodeLines(Tail(lines), timestamp)
                  IN  IF rest.raised THEN Exception
                      ELSE Value(first.value \o rest.value)

\* a concat that loses the last row of the batch
ConcatDropsLast(df, parsed_data) ==
    IF parsed_data = <<>> THEN df
    ELSE df \o SubSeq(parsed_data, 1, Len(parsed_data) - 1)

\* the new frame assigned in place of the concatenation
ConcatReplaces(df, parsed_data) == parsed_data

\* a concat with its two frames in the other order
ConcatPrepends(df, parsed_data) == parsed_data \o df

\* pd.concat([df, pd.DataFrame(parsed_data, ...)], ignore_index=True)
Concat(df, parsed_data) == df \o parsed_data

\* the lines of the pod text for which parse_pod_metrics submits a task
Retained(line) == Len(Parts(line)) >= 5

\* SelectSeq with the code's filter: for line in lines[1:], if len(parts) >= 5
RetainedLines(output) == SelectSeq(Tail(Lines(output)), Retained)

\* process_pod_metrics(timestamp, namespace, pod, cpu, memory): the row, or
\* None when anything raised inside the try block (except Exception)
NoneResult == <<>>

process_pod_metrics(timestamp, line, image_outcome) ==
    LET parts  == Parts(line)
        cpu    == ParseCpu(parts[3])
        memory == ParsePodMemory(parts[4])
        image  == lookup_pod_image(image_outcome)
    IN  IF cpu.ok /\ memory.ok /\ ~image.raised
        THEN <<PodRow(timestamp, parts[2], parts[1], cpu.val, memory.val, image.value)>>
        ELSE NoneResult

\* ------------------------------------------------------------------------
\* Report arithmetic (get_report, lines 51-74).  mean() and the divisions by
\* 0.9 are taken over the rationals: a rational is a pair num/den, den > 0.
\* ------------------------------------------------------------------------

Rat(n, d) == [num |-> n, den |-> d]

RatEq(a, b) == a.num * b.den = b.num * a.den

RECURSIVE Sum(_)
Sum(xs) == IF xs = <<>> THEN 0 ELSE Head(xs) + Sum(Tail(xs))

RECURSIVE Max(_)
Max(xs) ==
    IF Len(xs) = 1 THEN xs[1]
    ELSE LET m == Max(Tail(xs)) IN IF Head(xs) >= m THEN Head(xs) ELSE m

RECURSIVE Min(_)
Min(xs) ==
    IF Len(xs) = 1 THEN xs[1]
    ELSE LET m == Min(Tail(xs)) IN IF Head(xs) <= m THEN Head(xs) ELSE m

\* Series.mean()
Mean(xs) == Rat(Sum(xs), Len(xs))

Column(df, f) == [i \in 1..Len(df) |-> df[i][f]]

\* the distinct values in order of last appearance
RECURSIVE UniqueByLast(_)
UniqueByLast(xs) ==
    IF xs = <<>> THEN <<>>
    ELSE LET rest == UniqueByLast(Tail(xs))
         IN  IF \E i \in 1..Len(rest) : rest[i] = Head(xs) THEN rest
             ELSE <<Head(xs)>> \o rest

\* df["image"].unique(): distinct values in order of first appearance
RECURSIVE Unique(_)
Unique(xs) ==
    IF xs = <<>> THEN <<>>
    ELSE LET init == Unique(SubSeq(xs, 1, Len(xs) - 1))
             last == xs[Len(xs)]
         IN  IF \E i \in 1..Len(init) : init[i] = last THEN init
             ELSE Append(init, last)

\* df[df["image"] == image]
ImageData(df, image) == SelectSeq(df, LAMBDA row : row.image = image)

\* x * 0.9 for a rational x
TimesNineTenths(x) == Rat(9 * x.num, 10 * x.den)

\* x / 0.9 for a rational x
DivideByNineTenths(x) == Rat(10 * x.num, 9 * x.den)

\* one element of the report, from the rows of one image and the result of
\* lookup_allocated_memory
ReportEntry(image, image_data, allocated_memory) ==
    LET avg_cpu    == Mean(Column(image_data, "cpu"))
        max_cpu    == Max(Column(image_data, "cpu"))
        avg_memory == Mean(Column(image_data, "memory"))
        max_memory == Max(Column(image_data, "memory"))
        recommended_cpu ==
            IF avg_cpu.num > 0 THEN DivideByNineTenths(avg_cpu) ELSE Rat(1, 1)
        recommended_memory ==
            IF max_memory > 0 THEN DivideByNineTenths(Rat(max_memory, 1)) ELSE Rat(1, 1)
        cpu_over_provisioned ==
            IF recommended_cpu.num > 0
            THEN Rat(max_cpu * recommended_cpu.den, recommended_cpu.num)
            ELSE Rat(0, 1)
        memory_over_provisioned ==
            IF recommended_memory.num > 0
            THEN Rat(allocated_memory * recommended_memory.den, recommended_memory.num)
            ELSE Rat(0, 1)
    IN  [image |-> image,
         avg_cpu |-> avg_cpu,
         max_cpu |-> max_cpu,
         avg_memory |-> avg_memory,
         max_memory |-> max_memory,
         requested_cpu |-> max_cpu,
         requested_memory |-> allocated_memory,
         recommended_cpu |-> recommended_cpu,
         recommended_memory |-> recommended_memory,
         cpu_over_provisioned |-> cpu_over_provisioned,
         memory_over_provisioned |-> memory_over_provisioned]

\* to the nearest integer, a tie to the even one: floor is the integer part
\* of a quantity, twice_rest twice its fractional part in units of 1/unit
HalfEven(floor, twice_rest, unit) ==
    IF twice_rest > unit \/ (twice_rest = unit /\ floor % 2 = 1) THEN floor + 1 ELSE floor

\* f"{x:.2f}" for a double whose exact value is the rational x: the
\* hundredths printed.  Python rounds the exact value, a tie to even.
Format2f(x) == HalfEven((100 * x.num) \div x.den, 2 * ((100 * x.num) % x.den), x.den)

RECURSIVE Pow2(_)
Pow2(k) == IF k = 0 THEN 1 ELSE 2 * Pow2(k - 1)

\* the exponent of the double m / a: the c with 2^c <= m / a < 2^(c + 1)
RECURSIVE FloorLog2(_, _)
FloorLog2(m, a) ==
    IF m >= a THEN (IF m < 2 * a THEN 0 ELSE 1 + FloorLog2(m, 2 * a))
    ELSE FloorLog2(2 * m, a) - 1

\* x * 2^t modulo n
RECURSIVE ShiftMod(_, _, _)
ShiftMod(x, t, n) == IF t = 0 THEN x % n ELSE ShiftMod((2 * x) % n, t - 1, n)

\* The sign of (m / a) * 100, computed in IEEE doubles as line 222 does,
\* minus the rational 100 * m / a; m, a > 0.  The quotient has the 53-bit
\* significand M = round(m * 2^t / a), t = 52 - c; its product with 100
\* is rounded again, to a multiple of 2^k, k = 6 or 7.  Both roundings go
\* to the nearest, a tie to even, and are followed through the low bits of
\* M and the remainder of the division.
PercentError(m, a) ==
    LET c      == FloorLog2(m, a)
        shift  == ShiftMod(m, 52 - c, 128 * a)
        low0   == shift \div a
        rest0  == shift % a
        up     == 2 * rest0 > a \/ (2 * rest0 = a /\ low0 % 2 = 1)
        low    == IF up THEN (low0 + 1) % 128 ELSE low0
        rest   == IF up THEN rest0 - a ELSE rest0
        k      == IF (IF c + 7 >= 0 THEN 100 * m < a * Pow2(c + 7)
                                    ELSE 100 * m * Pow2(0 - c - 7) < a)
                  THEN 6 ELSE 7
        bits   == (100 * low) % 256
        drop   == bits % Pow2(k)
        odd    == (bits \div Pow2(k)) % 2 = 1
        up2    == 2 * drop > Pow2(k) \/ (2 * drop = Pow2(k) /\ odd)
        delta  == IF up2 THEN Pow2(k) - drop ELSE 0 - drop
    IN  a * delta - 100 * rest

\* f"{(m / a) * 100:.2f}" for integers m, a > 0: the hundredths printed.  The
\* double differs from 100 * m / a by less than any distance between that
\* rational and a tie, so it decides the rounding only when the rational is
\* a tie.
Percent2f(m, a) ==
    LET floor      == (10000 * m) \div a
        twice_rest == 2 * ((10000 * m) % a)
        error      == PercentError(m, a)
    IN  IF twice_rest = a /\ error # 0
        THEN (IF error > 0 THEN floor + 1 ELSE floor)
        ELSE HalfEven(floor, twice_rest, a)

\* df[df["node"] == node]
NodeData(df, node) == SelectSeq(df, LAMBDA row : row.node = node)

\* lines 205-207: the figures printed for one node
NodeSummary(node, node_data) ==
    [node |-> node,
     min_cpu |-> Min(Column(node_data, "cpu")),
     max_cpu |-> Max(Column(node_data, "cpu")),
     avg_cpu |-> Mean(Column(node_data, "cpu")),
     min_memory |-> Min(Column(node_data, "memory")),
     max_memory |-> Max(Column(node_data, "memory")),
     avg_memory |-> Mean(Column(node_data, "memory"))]

\* a figure that is not printed
NotPrinted == [printed |-> FALSE, value |-> Rat(0, 1), text |-> 0]

\* a figure printed with two decimals
Printed(x) == [printed |-> TRUE, value |-> x, text |-> Format2f(x)]

\* lines 211-225: the figures printed for one image; allocated_memory is
\* read only when max_memory > 0
ImageSummary(image, image_data, allocated_memory) ==
    LET max_cpu    == Max(Column(image_data, "cpu"))
        max_memory == Max(Column(image_data, "memory"))
    IN  [image |-> image,
         max_cpu |-> max_cpu,
         max_memory |-> max_memory,
         recommended_cpu |->
            IF max_cpu > 0 THEN Printed(DivideByNineTenths(Rat(max_cpu, 1))) ELSE NotPrinted,
         memory_utilization |->
            IF max_memory > 0
            THEN (IF allocated_memory > 0
                  THEN [printed |-> TRUE,
                        value |-> Rat(100 * max_memory, allocated_memory),
                        text |-> Percent2f(max_memory, allocated_memory)]
                  ELSE Printed(Rat(0, 1)))
            ELSE NotPrinted,
         recommended_memory |->
            IF max_memory > 0
            THEN Printed(IF allocated_memory > 0
                         THEN TimesNineTenths(Rat(allocated_memory, 1))
                         ELSE DivideByNineTenths(Rat(max_memory, 1)))
            ELSE NotPrinted]

\* ------------------------------------------------------------------------
\* Bounds and inputs
\* ------------------------------------------------------------------------

\* cycles of the sampling loop that are explored
MaxCycles == 2

\* requests served by each read handler
MaxRequests == 1

\* rows of the pod tables that the report and the summary are computed over
MaxRows == 3

Line(fields, trail) == [fields |-> fields, trail |-> trail]

NodeHeader == Line(<<"NAME", <<"C", "P", "U">>, <<"M", "E", "M">>>>, TRUE)

\* well-formed node lines
NodeLine1 == Line(<<"n1", <<"2", "m">>, <<"3", "M", "i">>>>, TRUE)

NodeLine2 == Line(<<"n2", <<"5", "%">>, <<"2", "K", "i">>>>, TRUE)

\* a CPU token without digits
NodeLineBad == Line(<<"n1", <<"a", "b", "c">>, <<"1", "G", "i">>>>, TRUE)

\* fewer than three parts
NodeLineShort == Line(<<"n2", <<"4", "m">>>>, FALSE)

\* stdout of `kubectl top nodes`: nothing at all, or a header and lines
NodeTexts ==
    { EmptyText,
      <<NodeHeader, NodeLine1, NodeLine2>>,
      <<NodeHeader, NodeLine1, NodeLineBad, NodeLine2>>,
      <<NodeHeader, NodeLineShort, NodeLine2>> }

PodHeader ==
    Line(<<"NAMESPACE", "NAME", <<"C", "P", "U">>, <<"M", "E", "M">>>>, TRUE)

\* well-formed pod lines, padded as kubectl pads its columns
PodLine1 == Line(<<"ns1", "web", <<"2", "m">>, <<"3", "M", "i">>>>, TRUE)

PodLine2 == Line(<<"ns2", "db", <<"4">>, <<"2", "0", "4", "8", "K", "i">>>>, TRUE)

\* a memory token without digits
PodLineBad == Line(<<"ns1", "web", <<"6", "m">>, <<"a", "b", "c">>>>, TRUE)

\* stdout of `kubectl top pods --all-namespaces`
PodTexts ==
    { EmptyText,
      <<PodHeader, PodLine1, PodLine2, PodLine1>>,
      <<PodHeader, PodLine1, PodLineBad, PodLine2>> }

\* str(n) for n >= 0: the decimal digits kubectl prints for a quantity
RECURSIVE Decimal(_)
Decimal(n) ==
    LET digit == CHOOSE c \in Digits : DigitVal(c) = n % 10
    IN  IF n < 10 THEN <<digit>> ELSE Append(Decimal(n \div 10), digit)

Units == {<<"M", "i">>, <<"G", "i">>, <<"K", "i">>}

\* quantities around the unit boundaries
Quantities == {0, 1, 64, 1023, 2048}

\* a pod text whose first pod line has the memory token n followed by unit
UnitText(n, unit) ==
    <<PodHeader, Line(<<"ns1", "web", <<"1", "m">>, Decimal(n) \o unit>>, TRUE), PodLine2>>

UnitTexts == {UnitText(n, unit) : n \in Quantities, unit \in Units}

\* a negative CPU token in one line, a negative memory token in the other
NodeLineNegative == Line(<<"n1", <<"-", "5", "m">>, <<"3", "M", "i">>>>, TRUE)

PodLineNegative == Line(<<"ns1", "web", <<"2", "m">>, <<"-", "3", "M", "i">>>>, TRUE)

SignedNodeTexts == {<<NodeHeader, NodeLineNegative, NodeLine2>>}

SignedPodTexts == {<<PodHeader, PodLine2, PodLineNegative, PodLine1>>}

\* the image query of a pod with one container, and of a pod with two
ContainerImageOutcomes == {Stdout(<<"nginx">>), Stdout(<<"nginx", "sidecar">>)}

\* a pod that uses nothing
PodLineIdle == Line(<<"ns2", "web", <<"0", "m">>, <<"0", "M", "i">>>>, TRUE)

\* the rows process_pod_metrics returns for these lines, for two answers of
\* the image query
SampleRows ==
    { process_pod_metrics(0, line, Stdout(image))[1] :
        line \in {PodLine1, PodLine2, PodLineIdle}, image \in {<<"nginx">>, <<"redis">>} }

\* the tables of at most n of these rows
Tables(rows, n) == UNION {[1..k -> rows] : k \in 0..n}

FetchOutcomes(texts) == {Stdout(t) : t \in texts} \cup {CalledProcessError, OSError}

ImageOutcomes == {Stdout(<<"nginx">>), CalledProcessError, OSError}

MemoryOutcomes ==
    { Stdout(<<<<"6", "4", "M", "i">>>>), Stdout(<<<<"1", "G", "i">>, <<"2", "M", "i">>>>),
      Stdout(<<<<"5", "1", "2", "M">>>>), Stdout(EmptyText),
      CalledProcessError, OSError }

\* ------------------------------------------------------------------------
\* State
\* ------------------------------------------------------------------------

VARIABLES
    now,              \* the last reading of time.time()
    cycle,            \* iterations of the while loop started so far
    pc,               \* where the collector thread is in collect_metrics
    timestamp,        \* collect_metrics: timestamp
    node_future,      \* collect_metrics: node_future
    pod_future,       \* collect_metrics: pod_future
    node_output,      \* collect_metrics: node_output
    pod_output,       \* collect_metrics: pod_output
    futures,          \* parse_pod_metrics: futures, one task per retained line
    node_metrics_df,  \* the global node table
    pod_metrics_df,   \* the global pod table
    node_batches,     \* history: the parsed_data of every node append
    pod_batches,      \* history: the parsed_data of every pod append
    m_pc,             \* where a /metrics request is in get_metrics
    m_count,          \* /metrics requests started
    m_response,       \* get_metrics: response
    r_pc,             \* where a /report request is in get_report
    r_count,          \* /report requests started
    r_images,         \* get_report: the array the for loop iterates over
    r_index,          \* get_report: iterations of the for loop completed
    r_report,         \* get_report: report
    r_response,       \* what get_report returned
    r_tables,         \* history: pod tables held by the global during the request
    r_lookups,        \* history: the requested-memory queries of the request
    completed,        \* history: the tasks of parse_pod_metrics in order of completion
    s_pc,             \* where the SIGINT handler is in signal_handler / summarize_metrics
    s_node_names,     \* summarize_metrics: the array the node loop iterates over
    s_node_index,     \* summarize_metrics: iterations of the node loop completed
    s_nodes,          \* summarize_metrics: the per-node figures printed
    s_images,         \* summarize_metrics: the array the image loop iterates over
    s_index,          \* summarize_metrics: iterations of the image loop completed
    s_summary,        \* summarize_metrics: the per-image figures printed
    s_lookups,        \* history: the requested-memory queries of the summary
    defined           \* statements of LaterStatements the main thread has executed

sampler_vars ==
    <<now, cycle, pc, timestamp, node_future, pod_future, node_output, pod_output,
      futures, node_metrics_df, pod_metrics_df, node_batches, pod_batches, completed>>

metrics_vars == <<m_pc, m_count, m_response>>

report_vars == <<r_pc, r_count, r_images, r_index, r_report, r_response, r_tables, r_lookups>>

summary_vars ==
    <<s_pc, s_node_names, s_node_index, s_nodes, s_images, s_index, s_summary, s_lookups>>

vars == <<sampler_vars, metrics_vars, report_vars, summary_vars, defined>>

\* a Future: whether its call has finished, and then what the call produced;
\* kind keeps, for the record, how the command of the call ended
NotStarted == [done |-> FALSE, raised |-> FALSE, value |-> EmptyText, kind |-> "none"]

Done(result, kind) ==
    [done |-> TRUE, raised |-> result.raised, value |-> result.value, kind |-> kind]

NoResponse == [kind |-> "none", body |-> <<>>]

Json(body) == [kind |-> "json", body |-> body]

\* str(e): the text of the exception
ErrorText == [kind |-> "text", body |-> <<>>]

\* the state after the module is loaded (lines 11-12 and the locals not yet
\* assigned), for given contents of the two tables
InitWith(node_df, pod_df, executed) ==
    /\ defined = executed
    /\ now = 0
    /\ cycle = 0
    /\ pc = "loop"
    /\ timestamp = 0
    /\ node_future = NotStarted
    /\ pod_future = NotStarted
    /\ node_output = EmptyText
    /\ pod_output = EmptyText
    /\ futures = <<>>
    /\ node_metrics_df = node_df
    /\ pod_metrics_df = pod_df
    /\ node_batches = IF node_df = <<>> THEN <<>> ELSE <<node_df>>
    /\ pod_batches = IF pod_df = <<>> THEN <<>> ELSE <<pod_df>>
    /\ m_pc = "idle"
    /\ m_count = 0
    /\ m_response = [node_metrics |-> <<>>, pod_metrics |-> <<>>]
    /\ r_pc = "idle"
    /\ r_count = 0
    /\ r_images = <<>>
    /\ r_index = 0
    /\ r_report = <<>>
    /\ r_response = NoResponse
    /\ r_tables = {}
    /\ r_lookups = <<>>
    /\ completed = <<>>
    /\ s_pc = "idle"
    /\ s_node_names = <<>>
    /\ s_node_index = 0
    /\ s_nodes = <<>>
    /\ s_images = <<>>
    /\ s_index = 0
    /\ s_summary = <<>>
    /\ s_lookups = <<>>

\* lines 11-12: both tables start empty; the collector thread has just been
\* started (line 35) and the main thread has the rest of the module to run
Init == InitWith(<<>>, <<>>, 0)

\* ------------------------------------------------------------------------
\* The main thread: the module body after app = create_app() (lines 91-196)
\* ------------------------------------------------------------------------

\* The collector thread is started inside create_app() (line 35, called at
\* line 88), while the main thread still has these statements to execute,
\* in this order: the registration of the SIGINT handler (line 96) and the
\* def statements of lines 99-196.  A name is bound once its statement ran.
LaterStatements ==
    << "signal_handler", "collect_node_metrics", "collect_pod_metrics",
       "parse_node_metrics", "parse_pod_metrics", "process_pod_metrics",
       "lookup_allocated_memory", "lookup_pod_image", "summarize_metrics" >>

\* evaluating the name does not raise NameError
IsDefined(name) == \E i \in 1..defined : LaterStatements[i] = name

\* the module is imported: the server takes requests
Imported == defined = Len(LaterStatements)

\* the main thread executes its next statement; it executes none while it
\* runs the SIGINT handler, nor after the handler ended it
Define ==
    /\ defined < Len(LaterStatements)
    /\ s_pc = "idle"
    /\ defined' = defined + 1
    /\ UNCHANGED <<sampler_vars, metrics_vars, report_vars, summary_vars>>

\* the main thread on its way to the statement that binds the name
DefineUpTo(name) == ~IsDefined(name) /\ Define

\* ------------------------------------------------------------------------
\* The collector thread: collect_metrics (lines 14-27)
\* ------------------------------------------------------------------------

\* time.time() is read as a clock that does not go backwards: since the last
\* reading it has stood still or advanced (by one unit of the model)
ClockReadings == {now, now + 1}

\* lines 15-20: read the clock, submit the two fetches.  The names of the
\* two fetch functions are looked up when the submits are evaluated: a name
\* not bound yet raises NameError, which ends the thread (after the with
\* block has waited for a node fetch already submitted).
StartCycle ==
    /\ pc = "loop"
    /\ cycle < MaxCycles
    /\ \E t \in ClockReadings :
        /\ now' = t
        /\ timestamp' = t
    /\ cycle' = cycle + 1
    /\ node_future' = NotStarted
    /\ pod_future' = NotStarted
    /\ pc' = IF IsDefined("collect_node_metrics") /\ IsDefined("collect_pod_metrics")
             THEN "fetching" ELSE "dead"
    /\ UNCHANGED <<node_output, pod_output, futures, node_metrics_df, pod_metrics_df,
                   node_batches, pod_batches, metrics_vars, report_vars,
                   summary_vars, completed, defined>>

\* the worker running collect_node_metrics finishes
NodeFetchDone(outcome) ==
    /\ pc = "fetching"
    /\ ~node_future.done
    /\ node_future' = Done(collect_node_metrics(outcome), outcome.kind)
    /\ UNCHANGED <<now, cycle, pc, timestamp, pod_future, node_output, pod_output,
                   futures, node_metrics_df, pod_metrics_df, node_batches, pod_batches,
                   metrics_vars, report_vars,
                   summary_vars, completed, defined>>

\* the worker running collect_pod_metrics finishes
PodFetchDone(outcome) ==
    /\ pc = "fetching"
    /\ ~pod_future.done
    /\ pod_future' = Done(collect_pod_metrics(outcome), outcome.kind)
    /\ UNCHANGED <<now, cycle, pc, timestamp, node_future, node_output, pod_output,
                   futures, node_metrics_df, pod_metrics_df, node_batches, pod_batches,
                   metrics_vars, report_vars,
                   summary_vars, completed, defined>>

\* a join that goes on as soon as one of the two workers has finished
JoinFirstCompleted ==
    /\ pc = "fetching"
    /\ node_future.done \/ pod_future.done
    /\ pc' = "parse_node"
    /\ node_output' = node_future.value
    /\ pod_output' = pod_future.value
    /\ node_future' = NotStarted
    /\ pod_future' = NotStarted
    /\ UNCHANGED <<now, cycle, timestamp, futures,
                   node_metrics_df, pod_metrics_df, node_batches, pod_batches,
                   metrics_vars, report_vars, summary_vars, completed, defined>>

\* lines 21-22 and the exit of the with block, which waits for both workers:
\* result() re-raises the exception of a fetch in the collector thread.  The
\* two future objects are not used after this point.
Join ==
    /\ pc = "fetching"
    /\ node_future.done
    /\ pod_future.done
    /\ IF node_future.raised \/ pod_future.raised
       THEN /\ pc' = "dead"
            /\ UNCHANGED <<node_output, pod_output, node_future, pod_future>>
       ELSE /\ pc' = "parse_node"
            /\ node_output' = node_future.value
            /\ pod_output' = pod_future.value
            /\ node_future' = NotStarted
            /\ pod_future' = NotStarted
    /\ UNCHANGED <<now, cycle, timestamp, futures,
                   node_metrics_df, pod_metrics_df, node_batches, pod_batches,
                   metrics_vars, report_vars,
                   summary_vars, completed, defined>>

\* lines 23-24: parse_node_metrics (lines 122-135); its ValueError is caught
\* nowhere and ends the collector thread, as does the NameError of line 24
\* when the function is not defined yet
ParseNode ==
    /\ pc = "parse_node"
    /\ IF node_output = EmptyText
       THEN /\ pc' = "parse_pod"
            /\ UNCHANGED <<node_metrics_df, node_batches>>
       ELSE IF ~IsDefined("parse_node_metrics")
       THEN /\ pc' = "dead"
            /\ UNCHANGED <<node_metrics_df, node_batches>>
       ELSE LET parsed_data == ParseNodeLines(Tail(Lines(node_output)), timestamp)
            IN  IF parsed_data.raised
                THEN /\ pc' = "dead"
                     /\ UNCHANGED <<node_metrics_df, node_batches>>
                ELSE /\ pc' = "parse_pod"
                     /\ node_metrics_df' = Concat(node_metrics_df, parsed_data.value)
                     /\ node_batches' = Append(node_batches, parsed_data.value)
    /\ UNCHANGED <<now, cycle, timestamp, node_future, pod_future, node_output,
                   pod_output, futures, pod_metrics_df, pod_batches,
                   metrics_vars, report_vars,
                   summary_vars, completed, defined>>

\* no image query was made: int() raised before line 162 was reached
NoQuery == [kind |-> "none", text |-> EmptyText]

\* process_pod_metrics reaches lookup_pod_image for this line
Queries(line) == ParseCpu(Parts(line)[3]).ok /\ ParsePodMemory(Parts(line)[4]).ok

\* a submitted task: its line, the outcome of the image query it made (kept
\* for the record) and what it returned
Task(line) ==
    [line |-> line, done |-> FALSE, outcome |-> NoQuery, result |-> NoneResult]

\* lines 25-26 and 141-149: one task per retained line.  The NameError of
\* line 26, or of line 149 at the first retained line, ends the thread.
SubmitPods ==
    /\ pc = "parse_pod"
    /\ IF pod_output = EmptyText
       THEN /\ pc' = "sleep"
            /\ UNCHANGED futures
       ELSE IF \/ ~IsDefined("parse_pod_metrics")
               \/ (RetainedLines(pod_output) # <<>> /\ ~IsDefined("process_pod_metrics"))
       THEN /\ pc' = "dead"
            /\ UNCHANGED futures
       ELSE /\ pc' = "pod_tasks"
            /\ futures' = LET lines == RetainedLines(pod_output)
                          IN  [i \in 1..Len(lines) |-> Task(lines[i])]
    /\ completed' = <<>>
    /\ UNCHANGED <<now, cycle, timestamp, node_future, pod_future, node_output,
                   pod_output, node_metrics_df, pod_metrics_df, node_batches,
                   pod_batches, metrics_vars, report_vars, summary_vars, defined>>

\* a worker runs process_pod_metrics for task i (lines 157-166); the
\* NameError of line 162, when lookup_pod_image is not defined yet, is
\* caught at line 164 like any exception
RunPodTask(i, image_outcome) ==
    /\ pc = "pod_tasks"
    /\ i \in 1..Len(futures)
    /\ ~futures[i].done
    /\ futures' = [futures EXCEPT ![i] =
            IF IsDefined("lookup_pod_image")
            THEN [line |-> @.line, done |-> TRUE,
                  outcome |-> IF Queries(@.line) THEN image_outcome ELSE NoQuery,
                  result |-> process_pod_metrics(timestamp, @.line, image_outcome)]
            ELSE [line |-> @.line, done |-> TRUE, outcome |-> NoQuery,
                  result |-> NoneResult]]
    /\ completed' = Append(completed, i)
    /\ UNCHANGED <<now, cycle, pc, timestamp, node_future, pod_future, node_output,
                   pod_output, node_metrics_df, pod_metrics_df, node_batches,
                   pod_batches, metrics_vars, report_vars, summary_vars, defined>>

\* the results that are not None, in the order in which the tasks finished
ResultsAsCompleted(fs) ==
    LET RECURSIVE Collect(_)
        Collect(order) ==
            IF order = <<>> THEN <<>> ELSE fs[Head(order)].result \o Collect(Tail(order))
    IN  Collect(completed)

\* lines 150-153: the results that are not None, in the order of the tasks
RECURSIVE Results(_)
Results(fs) == IF fs = <<>> THEN <<>> ELSE Head(fs).result \o Results(Tail(fs))

ReportRunning == r_pc \in {"unique", "loop"}

\* lines 150-154: join every task, then replace the global table
AppendPods ==
    /\ pc = "pod_tasks"
    /\ \A i \in 1..Len(futures) : futures[i].done
    /\ LET parsed_data == Results(futures)
       IN  /\ pod_metrics_df' = Concat(pod_metrics_df, parsed_data)
           /\ pod_batches' = Append(pod_batches, parsed_data)
    /\ r_tables' = IF ReportRunning THEN r_tables \cup {pod_metrics_df'} ELSE r_tables
    /\ pc' = "sleep"
    /\ UNCHANGED <<now, cycle, timestamp, node_future, pod_future, node_output,
                   pod_output, futures, node_metrics_df, node_batches, metrics_vars,
                   r_pc, r_count, r_images, r_index, r_report, r_response, r_lookups,
                   summary_vars, completed, defined>>

\* line 27; the locals of the finished iteration are overwritten before
\* they are read again
Sleep ==
    /\ pc = "sleep"
    /\ pc' = "loop"
    /\ node_output' = EmptyText
    /\ pod_output' = EmptyText
    /\ futures' = <<>>
    /\ completed' = <<>>
    /\ UNCHANGED <<now, cycle, timestamp, node_future, pod_future,
                   node_metrics_df, pod_metrics_df, node_batches,
                   pod_batches, metrics_vars, report_vars, summary_vars, defined>>

\* ------------------------------------------------------------------------
\* GET /metrics: get_metrics (lines 78-84)
\* ------------------------------------------------------------------------

\* DataFrame.to_dict(orient="records"): one dict per row, keyed by column
ToDict(df) == [i \in 1..Len(df) |-> [f \in DOMAIN df[i] |-> df[i][f]]]

\* line 81
MetricsReadNode ==
    /\ Imported
    /\ m_pc \in {"idle", "returned"}
    /\ m_count < MaxRequests
    /\ m_count' = m_count + 1
    /\ m_response' = [node_metrics |-> ToDict(node_metrics_df), pod_metrics |-> <<>>]
    /\ m_pc' = "node_read"
    /\ UNCHANGED <<sampler_vars, report_vars, summary_vars, defined>>

\* lines 82-84
MetricsReadPod ==
    /\ m_pc = "node_read"
    /\ m_response' = [m_response EXCEPT !.pod_metrics = ToDict(pod_metrics_df)]
    /\ m_pc' = "returned"
    /\ UNCHANGED <<sampler_vars, m_count, report_vars, summary_vars, defined>>

\* ------------------------------------------------------------------------
\* GET /report: get_report (lines 46-77)
\* ------------------------------------------------------------------------

\* lines 48-50: report = [], if not pod_metrics_df.empty
ReportStart ==
    /\ Imported
    /\ r_pc \in {"idle", "returned"}
    /\ r_count < MaxRequests
    /\ r_count' = r_count + 1
    /\ r_report' = <<>>
    /\ r_images' = <<>>
    /\ r_index' = 0
    /\ r_tables' = {pod_metrics_df}
    /\ r_lookups' = <<>>
    /\ IF pod_metrics_df = <<>>
       THEN /\ r_pc' = "returned"
            /\ r_response' = Json(<<>>)
       ELSE /\ r_pc' = "unique"
            /\ r_response' = NoResponse
    /\ UNCHANGED <<sampler_vars, metrics_vars, summary_vars, defined>>

\* line 51: the array of images the loop iterates over
ReportUnique ==
    /\ r_pc = "unique"
    /\ r_images' = Unique(Column(pod_metrics_df, "image"))
    /\ r_pc' = "loop"
    /\ UNCHANGED <<sampler_vars, metrics_vars, summary_vars, r_count, r_index, r_report,
                   r_response, r_tables, r_lookups, defined>>

\* a query of the requested memory: how the command ended and the arguments
\* lookup_allocated_memory was called with
Query(outcome, namespace, pod) ==
    [kind |-> outcome.kind, text |-> outcome.text, namespace |-> namespace, pod |-> pod]

\* lines 52-74: one iteration; both reads of the global in line 52 select
\* rows of the table its first read returned.  An exception of
\* lookup_allocated_memory is caught at line 76 and its text is returned.
ReportIteration(memory_outcome) ==
    /\ r_pc = "loop"
    /\ r_index < Len(r_images)
    /\ LET image            == r_images[r_index + 1]
           image_data       == ImageData(pod_metrics_df, image)
           allocated_memory == lookup_allocated_memory(memory_outcome)
       IN  IF allocated_memory.ok
           THEN /\ r_report' = Append(r_report,
                                      ReportEntry(image, image_data, allocated_memory.val))
                /\ r_index' = r_index + 1
                /\ UNCHANGED <<r_pc, r_response>>
           ELSE /\ r_response' = ErrorText
                /\ r_pc' = "returned"
                /\ UNCHANGED <<r_report, r_index>>
    /\ r_lookups' = Append(r_lookups,
            LET first == ImageData(pod_metrics_df, r_images[r_index + 1])[1]
            IN  Query(memory_outcome, first.namespace, first.pod))
    /\ UNCHANGED <<sampler_vars, metrics_vars, summary_vars, r_count, r_images, r_tables, defined>>

\* line 75
ReportReturn ==
    /\ r_pc = "loop"
    /\ r_index = Len(r_images)
    /\ r_response' = Json(r_report)
    /\ r_pc' = "returned"
    /\ UNCHANGED <<sampler_vars, metrics_vars, summary_vars, r_count, r_images, r_index, r_report,
                   r_tables, r_lookups, defined>>

\* ------------------------------------------------------------------------
\* SIGINT: signal_handler (lines 91-94) and summarize_metrics (lines 196-225)
\* ------------------------------------------------------------------------

\* SIGINT is delivered to the main thread once the handler is registered.
\* Lines 92-93 and 197-200: the handler calls summarize_metrics, a NameError
\* while its def statement has not run; summarize_metrics returns at once
\* when both tables are empty.
SummaryStart ==
    /\ s_pc = "idle"
    /\ IsDefined("signal_handler")
    /\ s_pc' = IF ~IsDefined("summarize_metrics") THEN "raised"
               ELSE IF node_metrics_df = <<>> /\ pod_metrics_df = <<>> THEN "done"
               ELSE "nodes"
    /\ UNCHANGED <<sampler_vars, metrics_vars, report_vars, s_node_names, s_node_index,
                   s_nodes, s_images, s_index, s_summary, s_lookups, defined>>

\* lines 202-203: the array of nodes the loop iterates over
SummaryNodes ==
    /\ s_pc = "nodes"
    /\ s_node_names' = IF node_metrics_df = <<>> THEN <<>>
                       ELSE Unique(Column(node_metrics_df, "node"))
    /\ s_pc' = "node_loop"
    /\ UNCHANGED <<sampler_vars, metrics_vars, report_vars, s_node_index,
                   s_nodes, s_images, s_index, s_summary, s_lookups, defined>>

\* lines 204-207: one iteration of the loop over the nodes; line 204 reads
\* the global table again
SummarizeNode ==
    /\ s_pc = "node_loop"
    /\ s_node_index < Len(s_node_names)
    /\ s_nodes' = LET node == s_node_names[s_node_index + 1]
                  IN  Append(s_nodes, NodeSummary(node, NodeData(node_metrics_df, node)))
    /\ s_node_index' = s_node_index + 1
    /\ UNCHANGED <<sampler_vars, metrics_vars, report_vars, s_pc, s_node_names,
                   s_images, s_index, s_summary, s_lookups, defined>>

\* lines 209-210: the array of images the loop iterates over
SummaryImages ==
    /\ s_pc = "node_loop"
    /\ s_node_index = Len(s_node_names)
    /\ s_images' = IF pod_metrics_df = <<>> THEN <<>>
                   ELSE Unique(Column(pod_metrics_df, "image"))
    /\ s_pc' = "images"
    /\ UNCHANGED <<sampler_vars, metrics_vars, report_vars, s_node_names, s_node_index,
                   s_nodes, s_index, s_summary, s_lookups, defined>>

\* lines 211-225: one iteration of the loop over the images; line 211 reads
\* the global table again.  The requested memory is looked up only when
\* max_memory > 0; an exception of the lookup is caught nowhere and leaves
\* the handler.
SummarizeImage(memory_outcome) ==
    /\ s_pc = "images"
    /\ s_index < Len(s_images)
    /\ LET image      == s_images[s_index + 1]
           image_data == ImageData(pod_metrics_df, image)
           queried    == Max(Column(image_data, "memory")) > 0
           allocated_memory ==
               IF queried THEN lookup_allocated_memory(memory_outcome) ELSE Returned(0)
       IN  /\ s_lookups' = Append(s_lookups,
                 IF queried
                 THEN Query(memory_outcome, image_data[1].namespace, image_data[1].pod)
                 ELSE NoQuery)
           /\ IF allocated_memory.ok
              THEN /\ s_summary' = Append(s_summary,
                          ImageSummary(image, image_data, allocated_memory.val))
                   /\ s_index' = s_index + 1
                   /\ UNCHANGED s_pc
              ELSE /\ s_pc' = "raised"
                   /\ UNCHANGED <<s_summary, s_index>>
    /\ UNCHANGED <<sampler_vars, metrics_vars, report_vars, s_node_names, s_node_index,
                   s_nodes, s_images, defined>>

\* line 94: summarize_metrics has returned, exit(0)
SummaryExit ==
    /\ s_pc = "done" \/ (s_pc = "images" /\ s_index = Len(s_images))
    /\ s_pc' = "exited"
    /\ UNCHANGED <<sampler_vars, metrics_vars, report_vars, s_node_names, s_node_index,
                   s_nodes, s_images, s_index, s_summary, s_lookups, defined>>

\* ------------------------------------------------------------------------
\* Specifications
\* ------------------------------------------------------------------------

\* the collector thread, its external commands answering from the given sets
Collector(node_outcomes, pod_outcomes, image_outcomes) ==
    \/ StartCycle
    \/ \E o \in node_outcomes : NodeFetchDone(o)
    \/ \E o \in pod_outcomes : PodFetchDone(o)
    \/ Join
    \/ ParseNode
    \/ SubmitPods
    \/ \E i \in 1..Len(futures), o \in image_outcomes : RunPodTask(i, o)
    \/ AppendPods
    \/ Sleep

\* The collector thread, over every outcome of its commands, and the main
\* thread as far as the last statement that binds a name the collector uses.
Next ==
    \/ Collector(FetchOutcomes(NodeTexts), FetchOutcomes(PodTexts), ImageOutcomes)
    \/ DefineUpTo("lookup_pod_image")

Spec == Init /\ [][Next]_vars

\* outcomes of the commands for the specifications with a request in flight:
\* well-formed texts, and queries that succeed or exit non-zero
WellFormedNodeOutcomes == {Stdout(<<NodeHeader, NodeLine1, NodeLine2>>), CalledProcessError}

WellFormedPodOutcomes ==
    {Stdout(<<PodHeader, PodLine1, PodLine2, PodLine1>>), CalledProcessError}

ServedImageOutcomes == {Stdout(<<"nginx">>), CalledProcessError}

\* The collector thread and GET /metrics requests.
NextMetrics ==
    \/ Collector(WellFormedNodeOutcomes, WellFormedPodOutcomes, ServedImageOutcomes)
    \/ Define
    \/ MetricsReadNode
    \/ MetricsReadPod

SpecMetrics == Init /\ [][NextMetrics]_vars

\* The collector thread and GET /report requests.
NextReport ==
    \/ Collector({CalledProcessError}, WellFormedPodOutcomes, ServedImageOutcomes)
    \/ Define
    \/ ReportStart
    \/ ReportUnique
    \/ \E o \in MemoryOutcomes : ReportIteration(o)
    \/ ReportReturn

SpecReport == Init /\ [][NextReport]_vars

\* get_report as a function of the pod table: a request over each table of
\* at most MaxRows rows, no collector running.
InitCompute ==
    \E pod_df \in Tables(SampleRows, MaxRows) : InitWith(<<>>, pod_df, Len(LaterStatements))

NextCompute ==
    \/ ReportStart
    \/ ReportUnique
    \/ \E o \in MemoryOutcomes : ReportIteration(o)
    \/ ReportReturn

SpecCompute == InitCompute /\ [][NextCompute]_vars

\* The collector thread over pod texts with memory tokens of every unit.
NextUnits ==
    \/ Collector({CalledProcessError}, {Stdout(t) : t \in UnitTexts}, {Stdout(<<"nginx">>)})
    \/ DefineUpTo("lookup_pod_image")

SpecUnits == Init /\ [][NextUnits]_vars

\* The collector thread over texts with signed tokens and over pods with
\* one or two containers; every command exits 0.
NextTokens ==
    \/ Collector({Stdout(t) : t \in SignedNodeTexts}, {Stdout(t) : t \in SignedPodTexts},
                 ContainerImageOutcomes)
    \/ DefineUpTo("lookup_pod_image")

SpecTokens == Init /\ [][NextTokens]_vars

\* the handler has neither called exit nor let an exception into the main
\* thread, which nothing of the module catches
ProcessRunning == s_pc \notin {"raised", "exited"}

\* the nodes under more load, as a later cycle finds them
NodeLineBusy1 == Line(<<"n1", <<"7", "m">>, <<"6", "M", "i">>>>, TRUE)

NodeLineBusy2 == Line(<<"n2", <<"9", "%">>, <<"4", "K", "i">>>>, TRUE)

ShutdownNodeOutcomes ==
    { Stdout(<<NodeHeader, NodeLine1, NodeLine2>>),
      Stdout(<<NodeHeader, NodeLineBusy1, NodeLineBusy2>>), CalledProcessError }

\* The collector thread, the main thread and one SIGINT.  The handler runs
\* in the main thread between two of its statements; the collector thread
\* runs on while the handler does, until the process ends.
NextShutdown ==
    \/ /\ ProcessRunning
       /\ Collector(ShutdownNodeOutcomes, WellFormedPodOutcomes, ServedImageOutcomes)
    \/ Define
    \/ SummaryStart
    \/ SummaryNodes
    \/ SummarizeNode
    \/ SummaryImages
    \/ \E o \in MemoryOutcomes : SummarizeImage(o)
    \/ SummaryExit

SpecShutdown == Init /\ [][NextShutdown]_vars

\* ------------------------------------------------------------------------
\* Properties
\* ------------------------------------------------------------------------

IsPrefix(s, t) == Len(s) <= Len(t) /\ SubSeq(t, 1, Len(s)) = s

RECURSIVE Flatten(_)
Flatten(batches) ==
    IF batches = <<>> THEN <<>> ELSE Head(batches) \o Flatten(Tail(batches))

Failed(kind) == kind \in {"CalledProcessError", "OSError"}

\* a line of the node text that reaches the int() calls
NodeLineParsed(line) == Len(Parts(line)) >= 3

NodeLineWellFormed(line) ==
    /\ NodeLineParsed(line)
    /\ ParseCpu(Parts(line)[2]).ok
    /\ ParseNodeMemory(Parts(line)[3]).ok

NodeLineMalformed(line) == NodeLineParsed(line) /\ ~NodeLineWellFormed(line)

\* the node rows of the well-formed lines of a text, in the order of the lines
RECURSIVE WellFormedNodeRows(_, _)
WellFormedNodeRows(lines, ts) ==
    IF lines = <<>> THEN <<>>
    ELSE (IF NodeLineWellFormed(Head(lines))
          THEN <<NodeRow(ts, Parts(Head(lines))[1],
                         ParseCpu(Parts(Head(lines))[2]).val,
                         ParseNodeMemory(Parts(Head(lines))[3]).val)>>
          ELSE <<>>)
         \o WellFormedNodeRows(Tail(lines), ts)

NodeRowsOf(output, ts) ==
    IF output = EmptyText THEN <<>> ELSE WellFormedNodeRows(Tail(Lines(output)), ts)

\* C1: the sampling loop is never ended by an error: whatever the fetches and
\* the lookups return or however they fail, the collector thread is never
\* left dead by an exception, so that it can always start its next cycle.
C1_LoopNeverEndsOnError == pc # "dead"

\* C2: the two fetches of a cycle fail independently.  When the fetches are
\* joined, a failed fetch has yielded the empty result and the cycle goes on
\* to parsing; in a cycle where a branch has the empty result, the table of
\* that branch is left unchanged, the rows of the well-formed lines of the
\* other branch are appended, and the cycle reaches its sleep.
C2_JoinStep ==
    (pc = "fetching" /\ pc' # "fetching") =>
        /\ pc' = "parse_node"
        /\ Failed(node_future.kind) => node_output' = EmptyText
        /\ Failed(pod_future.kind) => pod_output' = EmptyText

C2_NodeStep ==
    (pc = "parse_node" /\ pc' # "parse_node"
        /\ (node_output = EmptyText \/ pod_output = EmptyText)) =>
        /\ pc' = "parse_pod"
        /\ node_metrics_df' = node_metrics_df \o NodeRowsOf(node_output, timestamp)

C2_PodStep ==
    (pc \in {"parse_pod", "pod_tasks"} /\ pc' \notin {"parse_pod", "pod_tasks"}
        /\ (node_output = EmptyText \/ pod_output = EmptyText)) =>
        /\ pc' = "sleep"
        /\ pod_metrics_df' =
              IF pod_output = EmptyText THEN pod_metrics_df
              ELSE pod_metrics_df \o Results(futures)

C2_FetchesFailIndependently == [][C2_JoinStep /\ C2_NodeStep /\ C2_PodStep]_vars

NodeColumns == {"timestamp", "node", "cpu", "memory"}

PodColumns == {"timestamp", "pod", "namespace", "cpu", "memory", "image"}

\* rows is the content of the first k batches, for some k
WholeBatches(rows, batches) ==
    \E k \in 0..Len(batches) : rows = Flatten(SubSeq(batches, 1, k))

\* C3: what GET /metrics returns never shows a half-appended batch: for each
\* table the rows read are the rows of whole batches (every batch appended so
\* far is either wholly in the response or wholly absent), and every row read
\* has all the fields of its table.
C3_NoTornRead ==
    /\ WholeBatches(m_response.node_metrics, node_batches)
    /\ WholeBatches(m_response.pod_metrics, pod_batches)
    /\ \A i \in 1..Len(m_response.node_metrics) :
          DOMAIN m_response.node_metrics[i] = NodeColumns
    /\ \A i \in 1..Len(m_response.pod_metrics) :
          DOMAIN m_response.pod_metrics[i] = PodColumns

\* a request ran across the appends of the second cycle: its read of the node
\* table came before the second node batch, its read of the pod table after
\* the second pod batch, and each batch has two rows
C3_Witness ==
    /\ m_pc = "returned"
    /\ Len(m_response.node_metrics) = 2
    /\ Len(m_response.pod_metrics) = 4
    /\ Len(node_batches) = 2 /\ Len(node_batches[2]) = 2
    /\ Len(pod_batches) = 2 /\ Len(pod_batches[2]) = 2

\* C5: both tables are append-only: in every step the old content of each
\* table is a prefix of its new content.
C5_AppendOnly ==
    [][/\ IsPrefix(node_metrics_df, node_metrics_df')
       /\ IsPrefix(pod_metrics_df, pod_metrics_df')]_vars

\* both tables hold the rows of two appends
C5_Witness ==
    /\ Len(node_batches) = 2
    /\ Len(pod_batches) = 2
    /\ \A k \in 1..2 : node_batches[k] # <<>> /\ pod_batches[k] # <<>>
    /\ node_metrics_df = node_batches[1] \o node_batches[2]
    /\ pod_metrics_df = pod_batches[1] \o pod_batches[2]

Sorted(df) ==
    \A i, j \in 1..Len(df) : i <= j => df[i].timestamp <= df[j].timestamp

\* the rows a step appends to df all carry timestamp ts
AppendedCarry(df, dfNext, ts) ==
    \A i \in 1..Len(dfNext) : i > Len(df) => dfNext[i].timestamp = ts

\* C6: with a clock that does not go backwards, the timestamps of each table
\* never decrease in row order, and the rows a cycle appends all carry the one
\* timestamp read from the clock when that cycle started.
C6_TimestampsOrdered ==
    [][/\ Sorted(node_metrics_df') /\ Sorted(pod_metrics_df')
       /\ (pc = "loop" /\ pc' = "fetching") => timestamp' = now'
       /\ pc # "loop" => timestamp' = timestamp
       /\ AppendedCarry(node_metrics_df, node_metrics_df', timestamp)
       /\ AppendedCarry(pod_metrics_df, pod_metrics_df', timestamp)]_vars

\* two cycles with different clock readings have appended to both tables
C6_Witness ==
    /\ Len(node_metrics_df) >= 2
    /\ Len(pod_metrics_df) >= 2
    /\ node_metrics_df[1].timestamp < node_metrics_df[Len(node_metrics_df)].timestamp
    /\ pod_metrics_df[1].timestamp < pod_metrics_df[Len(pod_metrics_df)].timestamp

SameStatistics(e, f) ==
    /\ RatEq(e.avg_cpu, f.avg_cpu)
    /\ e.max_cpu = f.max_cpu
    /\ RatEq(e.avg_memory, f.avg_memory)
    /\ e.max_memory = f.max_memory

\* the images and the statistics of the report are those of the table
ReportIsOf(report, table) ==
    LET images == Unique(Column(table, "image"))
    IN  /\ Len(report) = Len(images)
        /\ \A k \in 1..Len(images) :
              /\ report[k].image = images[k]
              /\ SameStatistics(report[k],
                                ReportEntry(images[k], ImageData(table, images[k]), 0))

\* C4: a report returned while the collector is appending is a function of a
\* single state of the pod table: some one content that the table had during
\* the request gives the list of images and the statistics of every entry.
C4_ReportFromOneTable ==
    r_response.kind = "json" => \E table \in r_tables : ReportIsOf(r_response.body, table)

\* C7: a node line with a CPU or memory token without digits is dropped alone:
\* when parse_node_metrics, called after its def statement has run, ends on a
\* text with such a line, the rows of all well-formed lines of the text have
\* been appended to the node table and the cycle goes on to the pod text.
C7_MalformedNodeLineDropped ==
    [][(/\ pc = "parse_node" /\ pc' # "parse_node"
        /\ IsDefined("parse_node_metrics")
        /\ node_output # EmptyText
        /\ \E i \in 2..Len(node_output) : NodeLineMalformed(Lines(node_output)[i]))
       => /\ pc' = "parse_pod"
          /\ node_metrics_df' = node_metrics_df \o NodeRowsOf(node_output, timestamp)]_vars

\* the tasks of the well-formed retained lines, in order
WellFormedTasks(fs) == SelectSeq(fs, LAMBDA f : Queries(f.line))

\* row is the pod sample of the line: columns 1-4 and the timestamp
RowOfLine(row, line, ts) ==
    /\ row.timestamp = ts
    /\ row.namespace = Parts(line)[1]
    /\ row.pod = Parts(line)[2]
    /\ row.cpu = ParseCpu(Parts(line)[3]).val
    /\ row.memory = ParsePodMemory(Parts(line)[4]).val

\* every task of a well-formed line has called lookup_pod_image and run its
\* query: none met the name before its def statement had run
ImageQueriesMade ==
    \A i \in 1..Len(futures) : Queries(futures[i].line) => futures[i].outcome # NoQuery

\* C8: a retained pod line with a CPU or memory token without digits is
\* dropped alone: when parse_pod_metrics ends on a text with such a line, the
\* image query of every other line having been made, the rows appended to
\* the pod table are exactly one row for every well-formed retained line, in
\* order, none for the malformed line, and the cycle reaches its sleep.
C8_MalformedPodLineDropped ==
    [][(/\ pc = "pod_tasks" /\ pc' # "pod_tasks"
        /\ ImageQueriesMade
        /\ \E i \in 1..Len(futures) : ~Queries(futures[i].line))
       => /\ pc' = "sleep"
          /\ IsPrefix(pod_metrics_df, pod_metrics_df')
          /\ LET kept == WellFormedTasks(futures)
                 n    == Len(pod_metrics_df)
             IN  /\ Len(pod_metrics_df') = n + Len(kept)
                 /\ \A k \in 1..Len(kept) :
                       n + k <= Len(pod_metrics_df')
                       /\ RowOfLine(pod_metrics_df'[n + k], kept[k].line, timestamp)]_vars

\* C9: when the image query of a well-formed retained line fails, in any way,
\* the task still returns the row of the line, with image "unknown", and the
\* row is in the table once the batch is appended.
C9_LookupFailureGivesUnknown ==
    \A i \in 1..Len(futures) :
        (futures[i].done /\ Failed(futures[i].outcome.kind)) =>
            LET line == futures[i].line
                row  == PodRow(timestamp, Parts(line)[2], Parts(line)[1],
                               ParseCpu(Parts(line)[3]).val,
                               ParsePodMemory(Parts(line)[4]).val, Unknown)
            IN  /\ futures[i].result = <<row>>
                /\ pc = "sleep" => \E k \in 1..Len(pod_metrics_df) : pod_metrics_df[k] = row

\* C10: the requested-memory lookup never raises and returns a non-negative
\* integer, 0 when the query fails or prints nothing; so no lookup of a report
\* request ends the request with an error text: every lookup made has given
\* the entry of its image a requested memory >= 0, and a request over a
\* non-empty pod table returns the list.
C10_RequestedMemoryNeverRaises ==
    /\ r_response.kind # "text"
    /\ Len(r_report) = Len(r_lookups)
    /\ \A k \in 1..Len(r_report) :
          /\ r_report[k].requested_memory >= 0
          /\ (Failed(r_lookups[k].kind) \/ r_lookups[k].text = EmptyText)
                => r_report[k].requested_memory = 0

\* position of the first row of df carrying the image
FirstRowOf(df, image) ==
    CHOOSE i \in 1..Len(df) :
        df[i].image = image /\ \A j \in 1..(i - 1) : df[j].image # image

\* the sum of field f over the first n rows of df that carry the image
RECURSIVE SumWhere(_, _, _, _)
SumWhere(df, image, f, n) ==
    IF n = 0 THEN 0
    ELSE SumWhere(df, image, f, n - 1) + (IF df[n].image = image THEN df[n][f] ELSE 0)

RowsWith(df, image) == {i \in 1..Len(df) : df[i].image = image}

\* m is the greatest value of field f among the rows of df carrying the image
IsMaxWhere(m, df, image, f) ==
    /\ \E i \in RowsWith(df, image) : df[i][f] = m
    /\ \A i \in RowsWith(df, image) : df[i][f] <= m

\* the entries are those of distinct images of df, in the order of the first
\* rows of their images, each with the statistics of all rows of its image
GroupedInOrder(entries, df) ==
    /\ \A k \in 1..Len(entries) :
          LET image == entries[k].image
              rows  == RowsWith(df, image)
          IN  /\ rows # {}
              /\ RatEq(entries[k].avg_cpu,
                       Rat(SumWhere(df, image, "cpu", Len(df)), Cardinality(rows)))
              /\ RatEq(entries[k].avg_memory,
                       Rat(SumWhere(df, image, "memory", Len(df)), Cardinality(rows)))
              /\ IsMaxWhere(entries[k].max_cpu, df, image, "cpu")
              /\ IsMaxWhere(entries[k].max_memory, df, image, "memory")
    /\ \A k \in 1..(Len(entries) - 1) :
          FirstRowOf(df, entries[k].image) < FirstRowOf(df, entries[k + 1].image)
    \* no image with an earlier first row was passed over
    /\ \A k \in 1..Len(entries) : \A i \in 1..FirstRowOf(df, entries[k].image) :
          \E j \in 1..k : entries[j].image = df[i].image

\* C11: for every pod table, the list a report request builds has one entry
\* per distinct image, in the order of the first rows of the images, each
\* with the avg/max of all rows of its image whatever their pod or namespace;
\* the list returned has an entry for every image of the table, and it is
\* empty for the empty table.
C11_ReportGroupsByImage ==
    /\ GroupedInOrder(r_report, pod_metrics_df)
    /\ r_response.kind = "json" =>
          /\ r_response.body = r_report
          /\ Len(r_response.body) =
                Cardinality({pod_metrics_df[i].image : i \in 1..Len(pod_metrics_df)})

\* a report was returned for a table whose first and third rows carry one
\* image, from different pods, and whose second row carries another
C11_Witness ==
    /\ r_response.kind = "json"
    /\ Len(pod_metrics_df) = 3
    /\ pod_metrics_df[1].image = pod_metrics_df[3].image
    /\ pod_metrics_df[1].image # pod_metrics_df[2].image
    /\ pod_metrics_df[1].pod # pod_metrics_df[3].pod
    /\ pod_metrics_df[1].cpu # pod_metrics_df[3].cpu
    /\ Len(r_response.body) = 2
    /\ r_response.body[1].image = pod_metrics_df[1].image

\* the empty table gives the empty report
C11_WitnessEmpty == r_response = Json(<<>>) /\ pod_metrics_df = <<>> /\ r_pc = "returned"

\* the rational a times the rational b
RatTimes(a, b) == Rat(a.num * b.num, a.den * b.den)

Int2Rat(n) == Rat(n, 1)

\* the recommendations of an entry follow from its statistics and from the
\* requested memory
Recommends(e, allocated_memory) ==
    /\ IF e.avg_cpu.num > 0
       THEN RatEq(RatTimes(Int2Rat(9), e.recommended_cpu), RatTimes(Int2Rat(10), e.avg_cpu))
       ELSE RatEq(e.recommended_cpu, Int2Rat(1))
    /\ IF e.max_memory > 0
       THEN RatEq(RatTimes(Int2Rat(9), e.recommended_memory), Int2Rat(10 * e.max_memory))
       ELSE RatEq(e.recommended_memory, Int2Rat(1))
    /\ e.recommended_cpu.num > 0 /\ e.recommended_cpu.den > 0
    /\ e.recommended_memory.num > 0 /\ e.recommended_memory.den > 0
    /\ RatEq(RatTimes(e.cpu_over_provisioned, e.recommended_cpu), Int2Rat(e.max_cpu))
    /\ RatEq(RatTimes(e.memory_over_provisioned, e.recommended_memory),
             Int2Rat(allocated_memory))
    /\ e.requested_memory = allocated_memory

\* C12: in every entry of the report, recommended_cpu is avg_cpu / 0.9 when
\* avg_cpu > 0 and 1 otherwise, recommended_memory is max_memory / 0.9 when
\* max_memory > 0 and 1 otherwise (over the rationals: 9 * recommended =
\* 10 * statistic), cpu_over_provisioned is max_cpu / recommended_cpu and
\* memory_over_provisioned is allocated_memory / recommended_memory, where
\* allocated_memory is what the requested-memory lookup returned for the
\* namespace and pod of the first row of the image.
C12_RecommendationFormulas ==
    \A k \in 1..Len(r_report) :
        LET first == pod_metrics_df[FirstRowOf(pod_metrics_df, r_report[k].image)]
        IN  /\ k <= Len(r_lookups)
            /\ r_lookups[k].namespace = first.namespace
            /\ r_lookups[k].pod = first.pod
            /\ lookup_allocated_memory(r_lookups[k]).ok
            /\ Recommends(r_report[k], lookup_allocated_memory(r_lookups[k]).val)

\* a report of two entries was returned: one for an image with usage whose
\* lookup gave 64, asked for the pod of the first of its two rows, and one
\* for an image whose only row uses nothing
C12_Witness ==
    /\ r_response.kind = "json"
    /\ Len(r_response.body) = 2
    /\ Len(pod_metrics_df) = 3
    /\ pod_metrics_df[1].image = pod_metrics_df[3].image
    /\ pod_metrics_df[1].pod # pod_metrics_df[3].pod
    /\ r_response.body[1].avg_cpu.num > 0
    /\ r_response.body[1].max_memory > 0
    /\ r_response.body[1].requested_memory = 64
    /\ r_response.body[2].avg_cpu.num = 0
    /\ r_response.body[2].max_memory = 0

\* a non-header line of the pod text with the four columns NAMESPACE, NAME,
\* CPU, MEMORY and well-formed tokens in the last two
FourColumns(line) ==
    /\ Len(line.fields) >= 4
    /\ ParseCpu(line.fields[3]).ok
    /\ ParsePodMemory(line.fields[4]).ok

\* C13: every non-header line of the pod text with four or more fields and
\* well-formed CPU and memory tokens yields exactly one pod sample in its
\* cycle, built from columns 1-4: once the batch of a pod text is appended,
\* the image query of every task having been made, it holds one row per such
\* line, in order; a line with exactly four fields, such as the last line of
\* the text, is not skipped.
C13_EveryPodLineSampled ==
    (pc = "sleep" /\ pod_output # EmptyText /\ ImageQueriesMade) =>
        LET expected == SelectSeq(Tail(Lines(pod_output)), FourColumns)
            batch    == pod_batches[Len(pod_batches)]
        IN  /\ Len(batch) = Len(expected)
            /\ \A k \in 1..Len(expected) :
                  k <= Len(batch) /\ RowOfLine(batch[k], expected[k], timestamp)

\* n of the unit, in mebibytes
Mebibytes(n, unit) ==
    CASE unit = <<"M", "i">> -> n
      [] unit = <<"G", "i">> -> n * 1024
      [] unit = <<"K", "i">> -> n \div 1024

\* the row of a finished task whose line has the memory token n unit, and
\* whose image query was made, holds m in its memory field
StoresMemory(task, n, unit, m) ==
    (task.done /\ task.outcome # NoQuery /\ task.line.fields[4] = Decimal(n) \o unit) =>
        /\ Len(task.result) = 1
        /\ task.result[1].memory = m
        /\ pc = "sleep" => pod_metrics_df[Len(pod_metrics_df)] = task.result[1]

\* C14: the pod path normalises memory to mebibytes: for a token made of a
\* non-negative integer n and a unit, nMi gives n, nGi gives n * 1024 and nKi
\* gives floor(n / 1024), and that value is the memory field of the row the
\* task returns and the cycle appends.
C14_PodMemoryInMebibytes ==
    /\ \A n \in Quantities, unit \in Units :
          LET parsed == ParsePodMemory(Decimal(n) \o unit)
          IN  parsed.ok /\ parsed.val = Mebibytes(n, unit)
    /\ ParsePodMemory(<<"6", "4", "M", "i">>) = Returned(64)
    /\ ParsePodMemory(<<"1", "G", "i">>) = Returned(1024)
    /\ ParsePodMemory(<<"2", "0", "4", "8", "K", "i">>) = Returned(2)
    /\ \A i \in 1..Len(futures) : \A n \in Quantities, unit \in Units :
          StoresMemory(futures[i], n, unit, Mebibytes(n, unit))

\* two cycles have appended the rows of the lines "1Gi" and "1023Ki": the
\* table holds 1024 and 0
C14_Witness ==
    /\ pc = "sleep"
    /\ Len(pod_metrics_df) = 2
    /\ pod_batches[1] # <<>>
    /\ pod_metrics_df[1].memory = 1024
    /\ futures[1].line.fields[4] = <<"1", "0", "2", "3", "K", "i">>
    /\ pod_metrics_df[2].memory = 0

\* C15: every row of the node table and of the pod table has a CPU field
\* >= 0 and a memory field >= 0, whatever the texts held, tokens with a
\* leading minus sign included: a line that does not parse to non-negative
\* quantities is dropped, not stored.
C15_QuantitiesNeverNegative ==
    /\ \A i \in 1..Len(node_metrics_df) :
          node_metrics_df[i].cpu >= 0 /\ node_metrics_df[i].memory >= 0
    /\ \A i \in 1..Len(pod_metrics_df) :
          pod_metrics_df[i].cpu >= 0 /\ pod_metrics_df[i].memory >= 0

\* C16: when the image query of a pod prints several whitespace-separated
\* image names, the image of the row the task returns, and of the row in
\* the table, is the first name only.
C16_FirstImageStored ==
    \A i \in 1..Len(futures) :
        (futures[i].done /\ futures[i].outcome.kind = "stdout"
            /\ Len(futures[i].outcome.text) > 1) =>
            /\ Len(futures[i].result) = 1
            /\ futures[i].result[1].image = <<futures[i].outcome.text[1]>>

\* C17: shutdown always completes: after SIGINT, for every content of the
\* two tables and every outcome of the requested-memory lookups of the
\* summary, summarize_metrics does not raise, so that the handler goes on
\* to exit(0): no summary that has come to its lookups has raised.
C17_ShutdownCompletes == ~(s_pc = "raised" /\ s_lookups # <<>>)

\* C18: the summary uses the recommendation formula of the report: for the
\* same pod table and the same lookup result, the recommended CPU and the
\* recommended memory it prints for an image are those of the report entry
\* of the image (avg_cpu / 0.9 or 1, max_memory / 0.9 or 1), as printed
\* with two decimals.
C18_SummaryUsesReportFormula ==
    \A k \in 1..Len(s_summary) :
        LET e      == s_summary[k]
            lookup == IF s_lookups[k] = NoQuery THEN Returned(0)
                      ELSE lookup_allocated_memory(s_lookups[k])
            entry  == ReportEntry(e.image, ImageData(pod_metrics_df, e.image), lookup.val)
        IN  /\ e.recommended_cpu.printed =>
                  e.recommended_cpu.text = Format2f(entry.recommended_cpu)
            /\ e.recommended_memory.printed =>
                  e.recommended_memory.text = Format2f(entry.recommended_memory)

\* the steps collect_metrics can take from one position to another
CycleOrder ==
    { <<"loop", "fetching">>, <<"loop", "dead">>,
      <<"fetching", "parse_node">>, <<"fetching", "dead">>,
      <<"parse_node", "parse_pod">>, <<"parse_node", "dead">>,
      <<"parse_pod", "pod_tasks">>, <<"parse_pod", "sleep">>, <<"parse_pod", "dead">>,
      <<"pod_tasks", "sleep">>, <<"sleep", "loop">> }

\* C19: each cycle is a fork-join.  Both fetches are started together when
\* the cycle starts; the cycle leaves its fetching only when both fetches
\* have completed, and no table changes before that; the node table is
\* appended to while the node text is parsed, before the pod text is taken
\* up; the pod table is appended to only when every per-line task is done;
\* and a cycle starts only after the previous one has reached its sleep.
C19_ForkJoinCycle ==
    [][/\ pc' # pc => <<pc, pc'>> \in CycleOrder
       /\ (pc = "loop" /\ pc' = "fetching") =>
             /\ ~node_future'.done /\ ~pod_future'.done
             /\ cycle' = cycle + 1
       /\ cycle' # cycle => (pc = "loop" /\ pc' \in {"fetching", "dead"})
       /\ (pc = "fetching" /\ pc' # "fetching") => (node_future.done /\ pod_future.done)
       /\ pc \in {"loop", "fetching"} =>
             (node_metrics_df' = node_metrics_df /\ pod_metrics_df' = pod_metrics_df)
       /\ node_metrics_df' # node_metrics_df => (pc = "parse_node" /\ pc' = "parse_pod")
       /\ pod_metrics_df' # pod_metrics_df =>
             /\ pc = "pod_tasks" /\ pc' = "sleep"
             /\ \A i \in 1..Len(futures) : futures[i].done]_vars

\* the second cycle is fetching, its pod fetch done and its node fetch not,
\* after the first cycle appended its node batch and its pod batch
C19_Witness ==
    /\ cycle = 2
    /\ pc = "fetching"
    /\ pod_future.done /\ ~node_future.done
    /\ Len(node_batches) = 1 /\ node_batches[1] # <<>>
    /\ Len(pod_batches) = 1 /\ pod_batches[1] # <<>>
    /\ node_metrics_df = node_batches[1]
    /\ pod_metrics_df = pod_batches[1]

\* what the task of each line returned, in the order of the lines
RECURSIVE RowsInLineOrder(_, _)
RowsInLineOrder(fs, ts) ==
    IF fs = <<>> THEN <<>>
    ELSE process_pod_metrics(ts, Head(fs).line, Head(fs).outcome)
         \o RowsInLineOrder(Tail(fs), ts)

\* C20: the pod rows a cycle appends are in the order of their lines in
\* the fetched text, whatever the order in which the per-line tasks
\* completed: the batch, and so the table, is determined by the lines and
\* by the outcomes of their image queries alone.
C20_RowsInLineOrder ==
    (pc = "sleep" /\ pod_output # EmptyText) =>
        LET lines == RetainedLines(pod_output)
            batch == RowsInLineOrder(futures, timestamp)
        IN  /\ Len(futures) = Len(lines)
            /\ \A i \in 1..Len(lines) : futures[i].line = lines[i]
            /\ pod_batches[Len(pod_batches)] = batch
            /\ Len(pod_metrics_df) >= Len(batch)
            /\ SubSeq(pod_metrics_df, Len(pod_metrics_df) - Len(batch) + 1,
                      Len(pod_metrics_df)) = batch

\* the task of the second line finished before the task of the first, and
\* the batch appended holds the row of the first line before the row of the
\* second
C20_Witness ==
    /\ pc = "sleep"
    /\ completed = <<2, 1>>
    /\ Len(pod_batches[Len(pod_batches)]) = 2
    /\ pod_batches[Len(pod_batches)][1].pod = futures[1].line.fields[2]
    /\ pod_batches[Len(pod_batches)][2].pod = futures[2].line.fields[2]
    /\ futures[1].line # futures[2].line

====
